---- MODULE Spec2Model ----
(***************************************************************************)
(* A model of the four-panel comic generator of Comic.ipynb:               *)
(* StoryGenerator.generate_story, ImageGenerator.generate_image,           *)
(* ComicAssembler.assemble_comic and generate_comic.                       *)
(*                                                                         *)
(* A Python str is a sequence of one-character strings, so that split,     *)
(* strip, slicing, lower() and the f-strings are computed character by     *)
(* character.  The two pretrained models are external services: what they  *)
(* return, and whether they raise, is chosen nondeterministically.         *)
(***************************************************************************)
EXTENDS Integers, Sequences, FiniteSets, TLC

VARIABLES
    pc,        \* where generate_comic stands
    prompt,    \* generate_comic's argument prompt
    style,     \* generate_comic's argument style
    panels,    \* generate_story's list panels, then story_data
    inflight,  \* the model calls that were issued and have not come back
    log,       \* the external calls and their outcomes, in the order they happened
    images,    \* generate_comic's list images
    comic,     \* the composed canvas, NoComic before assemble_comic returned
    files,     \* the files written so far
    clock,     \* seconds elapsed since Epoch (time.time())
    args,      \* the arguments of a direct call of one method
    result     \* what that direct call returned

vars == << pc, prompt, style, panels, inflight, log, images, comic, files, clock,
           args, result >>

-----------------------------------------------------------------------------
(* Bounds of the model. *)

\* A response of the text model of this many characters has more than the 100
\* characters that the fallback keeps.
LongLen == 104

\* The clock advances at most this many seconds during one run.
MaxClock == 1

\* time.time() when the last image has come back.
Epoch == 1761762999

\* Longest sequences of panels and of images handed to assemble_comic directly.
MaxPanels == 5

\* The longest description and dialogue handed to assemble_comic directly.
MaxTextLen == 64

-----------------------------------------------------------------------------
(* Python's str operations. *)

Min(a, b) == IF a < b THEN a ELSE b

\* The characters str.strip() removes, those for which str.isspace() holds: space,
\* \t, \n, \r, \f and, written here as the characters themselves, \x0b (vertical
\* tab) and \x1c, \x1d, \x1e, \x1f (the file, group, record and unit separators).
\* The whitespace beyond ASCII (\x85, \xa0 and the Unicode spaces) is no single
\* character of a string here and is not among the inputs.
Whitespace ==
    { " ", "\t", "\n", "\r", "\f", "", "", "", "", "" }

\* s[:n]
Prefix(s, n) == SubSeq(s, 1, Min(n, Len(s)))

\* s.strip()
RECURSIVE lstrip(_)
lstrip(s) ==
    IF s # << >> /\ Head(s) \in Whitespace THEN lstrip(Tail(s)) ELSE s

RECURSIVE rstrip(_)
rstrip(s) ==
    IF s # << >> /\ s[Len(s)] \in Whitespace
    THEN rstrip(SubSeq(s, 1, Len(s) - 1))
    ELSE s

strip(s) == rstrip(lstrip(s))

\* The index of the first sep in s, 0 when there is none.
find(s, sep) ==
    IF \E j \in 1..Len(s) : s[j] = sep
    THEN CHOOSE j \in 1..Len(s) : s[j] = sep /\ \A h \in 1..(j - 1) : s[h] # sep
    ELSE 0

\* s.split(sep) for a one-character sep: one more part than there are seps.
RECURSIVE split(_, _)
split(s, sep) ==
    LET j == find(s, sep) IN
    IF j = 0 THEN << s >>
    ELSE << SubSeq(s, 1, j - 1) >> \o split(SubSeq(s, j + 1, Len(s)), sep)

UpperCase == << "A", "B", "C", "D", "E", "F", "G", "H", "I", "J", "K", "L", "M", "N", "O",
                "P", "Q", "R", "S", "T", "U", "V", "W", "X", "Y", "Z" >>

LowerCase == << "a", "b", "c", "d", "e", "f", "g", "h", "i", "j", "k", "l", "m", "n", "o",
                "p", "q", "r", "s", "t", "u", "v", "w", "x", "y", "z" >>

\* s.lower()
lower(s) ==
    [ j \in 1..Len(s) |->
        IF \E u \in 1..26 : UpperCase[u] = s[j]
        THEN LowerCase[CHOOSE u \in 1..26 : UpperCase[u] = s[j]]
        ELSE s[j] ]

Digits == << "0", "1", "2", "3", "4", "5", "6", "7", "8", "9" >>

\* str(n), f"{n}" for an int n >= 0
RECURSIVE str(_)
str(n) ==
    IF n < 10 THEN << Digits[n + 1] >>
    ELSE str(n \div 10) \o << Digits[(n % 10) + 1] >>

-----------------------------------------------------------------------------
(* StoryGenerator.generate_story *)

panel_types ==
    << << "I", "n", "t", "r", "o", "d", "u", "c", "t", "i", "o", "n" >>,
       << "S", "t", "o", "r", "y", "l", "i", "n", "e" >>,
       << "C", "l", "i", "m", "a", "x" >>,
       << "R", "e", "s", "o", "l", "u", "t", "i", "o", "n" >> >>

\* The instruction handed to the text model for one panel.
panel_prompt(panel_type, p) ==
    << "\n", " ", " ", " ", " ", " ", " ", " ", " ", " ", " ", " ", " ", "C", "r", "e",
       "a", "t", "e", " ", "a", " " >>
    \o lower(panel_type)
    \o << " ", "p", "a", "n", "e", "l", " ", "f", "o", "r", " ", "a", " ", "c", "o", "m",
          "i", "c", " ", "a", "b", "o", "u", "t", ":", " " >>
    \o p
    \o << "\n", "\n", " ", " ", " ", " ", " ", " ", " ", " ", " ", " ", " ", " ", "I", "n",
          "c", "l", "u", "d", "e", ":", "\n", " ", " ", " ", " ", " ", " ", " ", " ", " ",
          " ", " ", " ", "1", ".", " ", "A", " ", "b", "r", "i", "e", "f", " ", "d", "e",
          "s", "c", "r", "i", "p", "t", "i", "o", "n", " ", "(", "3", "0", "-", "5", "0",
          " ", "w", "o", "r", "d", "s", ")", "\n", " ", " ", " ", " ", " ", " ", " ", " ",
          " ", " ", " ", " ", "2", ".", " ", "O", "n", "e", " ", "l", "i", "n", "e", " ",
          "o", "f", " ", "d", "i", "a", "l", "o", "g", "u", "e", "\n", " ", " ", " ", " ",
          " ", " ", " ", " ", " ", " ", " ", " ", "3", ".", " ", "D", "e", "t", "a", "i",
          "l", "e", "d", " ", "v", "i", "s", "u", "a", "l", " ", "d", "e", "s", "c", "r",
          "i", "p", "t", "i", "o", "n", " ", "f", "o", "r", " ", "a", "n", " ", "i", "m",
          "a", "g", "e", "\n", "\n", " ", " ", " ", " ", " ", " ", " ", " ", " ", " ", " ",
          " ", "F", "o", "r", "m", "a", "t", ":", " ", "D", "e", "s", "c", "r", "i", "p",
          "t", "i", "o", "n", " ", "|", " ", "D", "i", "a", "l", "o", "g", "u", "e", " ",
          "|", " ", "V", "i", "s", "u", "a", "l", "\n", " ", " ", " ", " ", " ", " ", " ",
          " ", " ", " ", " ", " " >>

\* What response[0]['generated_text'] can be: a str, or an object that is no str,
\* whose split raises inside the try.
Str(s) == [ kind |-> "str", chars |-> s ]

NotStr == [ kind |-> "other", chars |-> << >> ]

\* f"Panel {i+1}: {panel_type}"
FallbackText(i, panel_type) ==
    << "P", "a", "n", "e", "l", " " >> \o str(i + 1) \o << ":", " " >> \o panel_type

\* A bug: f"Panel {i} dialogue", the index as enumerate gives it.
FallbackDialogue_ZeroBased(i) ==
    << "P", "a", "n", "e", "l", " " >> \o str(i) \o << " ", "d", "i", "a", "l", "o", "g",
                                                       "u", "e" >>

\* f"Panel {i+1} dialogue"
FallbackDialogue(i) ==
    << "P", "a", "n", "e", "l", " " >> \o str(i + 1) \o << " ", "d", "i", "a", "l", "o",
                                                           "g", "u", "e" >>

\* f"Comic panel showing {panel_type.lower()} about {prompt}, detailed illustration"
FallbackImagePrompt(panel_type, p) ==
    << "C", "o", "m", "i", "c", " ", "p", "a", "n", "e", "l", " ", "s", "h", "o", "w", "i",
       "n", "g", " " >> \o lower(panel_type) \o << " ", "a", "b", "o", "u", "t", " " >> \o p
    \o << ",", " ", "d", "e", "t", "a", "i", "l", "e", "d", " ", "i", "l", "l", "u", "s",
          "t", "r", "a", "t", "i", "o", "n" >>

\* How many characters of a response with fewer than 3 parts become the text.
FallbackKeep == 100

\* The try/except of one iteration: (text, dialogue, image_prompt) from content.
ParseContent(i, panel_type, p, content) ==
    IF content.kind = "str"
    THEN LET parts == split(content.chars, "|") IN
         IF Len(parts) >= 3
         THEN << strip(parts[1]), strip(parts[2]), strip(parts[3]) >>
         ELSE << strip(Prefix(content.chars, FallbackKeep)),
                 FallbackDialogue(i),
                 FallbackImagePrompt(panel_type, p) >>
    ELSE << FallbackText(i, panel_type),
            FallbackDialogue(i),
            FallbackImagePrompt(panel_type, p) >>

\* The dict appended for iteration i (0-based) of the loop.
MakePanel(i, panel_type, p, content) ==
    LET f == ParseContent(i, panel_type, p, content) IN
    [ panel |-> i + 1, type |-> panel_type,
      text |-> f[1], dialogue |-> f[2], image_prompt |-> f[3] ]

-----------------------------------------------------------------------------
(* ImageGenerator.generate_image *)

\* The dict styles, as (key, value) pairs.
styles ==
    << << << "c", "o", "m", "i", "c" >>,
          << "c", "o", "m", "i", "c", " ", "b", "o", "o", "k", " ", "s", "t", "y", "l",
             "e", ",", " ", "d", "e", "t", "a", "i", "l", "e", "d", " ", "i", "l", "l",
             "u", "s", "t", "r", "a", "t", "i", "o", "n" >> >>,
       << << "m", "a", "n", "g", "a" >>,
          << "m", "a", "n", "g", "a", " ", "s", "t", "y", "l", "e", ",", " ", "b", "l",
             "a", "c", "k", " ", "a", "n", "d", " ", "w", "h", "i", "t", "e" >> >>,
       << << "s", "u", "p", "e", "r", "h", "e", "r", "o" >>,
          << "s", "u", "p", "e", "r", "h", "e", "r", "o", " ", "c", "o", "m", "i", "c",
             " ", "s", "t", "y", "l", "e", ",", " ", "d", "y", "n", "a", "m", "i", "c",
             " ", "p", "o", "s", "e" >> >>,
       << << "c", "a", "r", "t", "o", "o", "n" >>,
          << "c", "a", "r", "t", "o", "o", "n", " ", "s", "t", "y", "l", "e", ",", " ",
             "c", "o", "l", "o", "r", "f", "u", "l", " ", "a", "n", "d", " ", "v", "i",
             "b", "r", "a", "n", "t" >> >> >>

\* d[key] for a key of d
getitem(d, key) == d[CHOOSE j \in 1..Len(d) : d[j][1] = key][2]

\* d.get(key, default)
get(d, key, default) ==
    IF \E j \in 1..Len(d) : d[j][1] = key THEN getitem(d, key) ELSE default

\* A bug: the style is looked up in lower case.
style_prompt_IgnoresCase(s) == get(styles, lower(s), getitem(styles, << "c", "o", "m", "i",
                                                                        "c" >>))

style_prompt(s) == get(styles, s, getitem(styles, << "c", "o", "m", "i", "c" >>))

\* f"{style_prompt}, {prompt}"
enhanced_prompt(p, s) == style_prompt(s) \o << ",", " " >> \o p

\* The call of self.pipe: the prompt and the fixed parameters (guidance_scale is
\* 7.5, written as the fraction 15/2).
PipeRequest(p, s) ==
    [ prompt |-> enhanced_prompt(p, s), guidance_scale |-> << 15, 2 >>,
      num_inference_steps |-> 30, height |-> 512, width |-> 512 ]

\* .images[0] of the n-th call of the pipe: a new image of the requested size.
PipeImage(n, request) ==
    [ id |-> n, width |-> request.width, height |-> request.height ]

-----------------------------------------------------------------------------
(* ComicAssembler.assemble_comic *)

panel_width == 512

panel_height == 600

border == 20

comic_width == panel_width * 2 + border * 3

comic_height == panel_height * 2 + border * 3

\* The longest description and dialogue drawn in full, and what the others keep.
TextLimit == 60

TextKeep == 57

DialogueLimit == 40

DialogueKeep == 37

Ellipsis == << ".", ".", "." >>

\* A bug: text[:60] + "...", the ellipsis added after the limit.
DrawnText_KeepsLimit(text) ==
    IF Len(text) > TextLimit THEN Prefix(text, TextLimit) \o Ellipsis ELSE text

\* if len(text) > 60: text = text[:57] + "..."
DrawnText(text) ==
    IF Len(text) > TextLimit THEN Prefix(text, TextKeep) \o Ellipsis ELSE text

\* if len(dialogue) > 40: dialogue = dialogue[:37] + "..."
DrawnDialogue(dialogue) ==
    IF Len(dialogue) > DialogueLimit
    THEN Prefix(dialogue, DialogueKeep) \o Ellipsis
    ELSE dialogue

row(i) == i \div 2

col(i) == i % 2

\* x = border + col * (panel_width + border)
PanelX(i) == border + col(i) * (panel_width + border)

\* A bug: the rows are spaced by the width of a panel.
PanelY_ByWidth(i) == border + row(i) * (panel_width + border)

\* y = border + row * (panel_height + border)
PanelY(i) == border + row(i) * (panel_height + border)

\* What iteration i (0-based) of the loop draws on the canvas: the pasted image,
\* the frame, the text background and the three lines of text.  A rectangle is
\* << x0, y0, x1, y1 >>.
DrawPanel(i, panel, image) ==
    LET x == PanelX(i)
        y == PanelY(i)
    IN  [ image |-> image,
          paste |-> << x, y, x + image.width, y + image.height >>,
          frame |-> << x, y, x + panel_width, y + panel_height - 88 >>,
          background |-> << x, y + panel_width, x + panel_width, y + panel_height >>,
          label |-> [ at |-> << x + 10, y + panel_width + 5 >>,
                      text |-> << "P", "a", "n", "e", "l", " " >> \o str(panel.panel)
                               \o << ":", " " >> \o panel.type ],
          text |-> [ at |-> << x + 10, y + panel_width + 30 >>,
                     text |-> DrawnText(panel.text) ],
          dialogue |-> [ at |-> << x + 10, y + panel_width + 60 >>,
                         text |-> << "\"" >> \o DrawnDialogue(panel.dialogue)
                                  \o << "\"" >> ] ]

\* A bug: the loop stops one pair early.
ZipLen_DropsLast(story_data, imgs) == Min(Len(story_data), Len(imgs)) - 1

\* zip(story_data, images) stops at the shorter of the two.
ZipLen(story_data, imgs) == Min(Len(story_data), Len(imgs))

assemble_comic(story_data, imgs) ==
    [ size |-> << comic_width, comic_height >>,
      title |-> [ at |-> << comic_width \div 2 - 100, border \div 2 >>,
                  text |-> << "C", "o", "m", "i", "c", " ", "S", "t", "o", "r", "y" >> ],
      cells |-> [ j \in 1..ZipLen(story_data, imgs) |->
                    DrawPanel(j - 1, story_data[j], imgs[j]) ] ]

NoComic == [ size |-> << 0, 0 >>, title |-> [ at |-> << 0, 0 >>, text |-> << >> ],
             cells |-> << >> ]

-----------------------------------------------------------------------------
(* The inputs the model draws from. *)

\* What the user types at "Enter your story prompt: ".
Prompts ==
    { << "a", " ", "r", "o", "b", "o", "t", " ", "l", "e", "a", "r", "n", "s", " ", "t",
         "o", " ", "p", "a", "i", "n", "t" >>,
      << "C", "a", "t", " ", "|", " ", "D", "o", "g" >> }

\* What the user types at "Choose a style ...", for a whole run.
RunStyles ==
    { << "m", "a", "n", "g", "a" >>, << "n", "o", "i", "r" >> }

\* n characters, no two neighbours alike, none of them a pipe or a space.
Fill(n) == [ j \in 1..n |-> LowerCase[((j - 1) % 26) + 1] ]

\* What the text model may return as generated_text.
TextOutputs ==
    { Str(<< " ", "A", " ", "r", "o", "b", "o", "t", " ", "f", "i", "n", "d", "s", " ",
             "a", " ", "b", "r", "u", "s", "h", ".", " ", "|", " ", "W", "h", "a", "t",
             " ", "i", "s", " ", "t", "h", "i", "s", "?", "", " ", "|", "", "", " ",
             "r", "o", "b", "o", "t", " ", "h", "o", "l", "d", "i", "n", "g", " ", "a",
             " ", "b", "r", "u", "s", "h", "" >>),
      Str(<< "o", "n", "e", "|", "t", "w", "o", "|", "t", "h", "r", "e", "e", "|", "f",
             "o", "u", "r" >>),
      Str(<< " ", "", " ", "T", "h", "e", " ", "r", "o", "b", "o", "t", " ", "p", "a",
             "i", "n", "t", "s", "\n", "" >>),
      Str(<< "A", " ", "r", "o", "b", "o", "t", " ", "|", " ", "H", "e", "l", "l", "o" >>),
      Str(Fill(LongLen)),
      NotStr }

-----------------------------------------------------------------------------
(* generate_comic: the run of the notebook. *)

\* What the log keeps of a call of a model: that it was made (with its request),
\* that it returned (with what), or that it raised.
Event(ev, call, val) == [ ev |-> ev, svc |-> call.svc, n |-> call.n, val |-> val ]

Init ==
    /\ pc = "start"
    /\ prompt \in Prompts
    /\ style \in RunStyles
    /\ panels = << >>
    /\ inflight = { }
    /\ log = << >>
    /\ images = << >>
    /\ comic = NoComic
    /\ files = { }
    /\ clock = 0
    /\ args = << >>
    /\ result = << >>

\* A bug: the loop leaves out the last panel type.
StoryLoopGoesOn_StopsEarly(done) == done < Len(panel_types) - 1

\* The for loop of generate_story goes on while panel_types has a next element.
StoryLoopGoesOn(done) == done < Len(panel_types)

\* The for loop over story_data goes on while story_data has a next element.
ImageLoopGoesOn(done, story_data) == done < Len(story_data)

\* story_gen = StoryGenerator(): the tokenizer and the model are loaded.
NewStoryGenerator ==
    /\ pc = "start"
    /\ pc' = "story"
    /\ UNCHANGED << prompt, style, panels, inflight, log, images, comic, files, clock,
                    args, result >>

\* StoryGenerator() raises (from_pretrained, .to("cuda") or pipeline(...) fails):
\* nothing catches it, generate_comic is left before any call of the text model.
NewStoryGeneratorRaises ==
    /\ pc = "start"
    /\ pc' = "failed"
    /\ UNCHANGED << prompt, style, panels, inflight, log, images, comic, files, clock,
                    args, result >>

\* self.generator(panel_prompt, ...) is entered for iteration i = Len(panels).
CallText ==
    /\ pc = "story"
    /\ StoryLoopGoesOn(Len(panels))
    /\ LET call == [ svc |-> "text", n |-> Len(panels),
                     request |-> panel_prompt(panel_types[Len(panels) + 1], prompt) ]
       IN  /\ inflight' = inflight \cup { call }
           /\ log' = Append(log, Event("call", call, call.request))
    /\ pc' = "text_wait"
    /\ UNCHANGED << prompt, style, panels, images, comic, files, clock, args, result >>

\* The generator returns; the response is parsed and the panel appended.
ReturnText ==
    /\ pc = "text_wait"
    /\ \E call \in inflight, content \in TextOutputs :
        LET i == call.n IN
        /\ inflight' = inflight \ { call }
        /\ log' = Append(log, Event("return", call, content))
        /\ panels' = Append(panels, MakePanel(i, panel_types[i + 1], prompt, content))
        /\ pc' = IF StoryLoopGoesOn(i + 1) THEN "story" ELSE "load"
    /\ UNCHANGED << prompt, style, images, comic, files, clock, args, result >>

\* A bug (the call moved inside the try): the exception is caught and the panel
\* gets the fallback values.
RaiseText_Caught ==
    /\ pc = "text_wait"
    /\ \E call \in inflight :
        LET i == call.n IN
        /\ inflight' = inflight \ { call }
        /\ log' = Append(log, Event("raise", call, << >>))
        /\ panels' = Append(panels, MakePanel(i, panel_types[i + 1], prompt, NotStr))
        /\ pc' = IF StoryLoopGoesOn(i + 1) THEN "story" ELSE "load"
    /\ UNCHANGED << prompt, style, images, comic, files, clock, args, result >>

\* The generator raises (or response[0]['generated_text'] does): lines 59-60 stand
\* before the try, so the exception leaves generate_story and generate_comic.
RaiseText ==
    /\ pc = "text_wait"
    /\ \E call \in inflight :
        /\ inflight' = inflight \ { call }
        /\ log' = Append(log, Event("raise", call, << >>))
    /\ pc' = "failed"
    /\ UNCHANGED << prompt, style, panels, images, comic, files, clock, args, result >>

\* The story is printed; image_gen = ImageGenerator(): the pipeline is loaded.
NewImageGenerator ==
    /\ pc = "load"
    /\ pc' = "render"
    /\ UNCHANGED << prompt, style, panels, inflight, log, images, comic, files, clock,
                    args, result >>

\* ImageGenerator() raises (from_pretrained or .to("cuda") fails): generate_comic is
\* left after the story and before any call of the image model.
NewImageGeneratorRaises ==
    /\ pc = "load"
    /\ pc' = "failed"
    /\ UNCHANGED << prompt, style, panels, inflight, log, images, comic, files, clock,
                    args, result >>

\* image_gen.generate_image(panel['image_prompt'], style) enters self.pipe.
CallImage ==
    /\ pc = "render"
    /\ ImageLoopGoesOn(Len(images), panels)
    /\ LET call == [ svc |-> "image", n |-> Len(images),
                     request |-> PipeRequest(panels[Len(images) + 1].image_prompt, style) ]
       IN  /\ inflight' = inflight \cup { call }
           /\ log' = Append(log, Event("call", call, call.request))
    /\ pc' = "image_wait"
    /\ UNCHANGED << prompt, style, panels, images, comic, files, clock, args, result >>

\* A bug: images.insert(0, image).
ReturnImage_Prepends ==
    /\ pc = "image_wait"
    /\ \E call \in inflight :
        LET image == PipeImage(call.n + 1, call.request) IN
        /\ inflight' = inflight \ { call }
        /\ log' = Append(log, Event("return", call, image))
        /\ images' = << image >> \o images
        /\ pc' = IF ImageLoopGoesOn(call.n + 1, panels) THEN "render" ELSE "assemble"
    /\ UNCHANGED << prompt, style, panels, comic, files, clock, args, result >>

\* The pipe returns; the image is appended to images.
ReturnImage ==
    /\ pc = "image_wait"
    /\ \E call \in inflight :
        LET image == PipeImage(call.n + 1, call.request) IN
        /\ inflight' = inflight \ { call }
        /\ log' = Append(log, Event("return", call, image))
        /\ images' = Append(images, image)
        /\ pc' = IF ImageLoopGoesOn(call.n + 1, panels) THEN "render" ELSE "assemble"
    /\ UNCHANGED << prompt, style, panels, comic, files, clock, args, result >>

\* A bug: the exception is caught and the call made again.
RaiseImage_Retried ==
    /\ pc = "image_wait"
    /\ \E call \in inflight :
        /\ inflight' = inflight \ { call }
        /\ log' = Append(log, Event("raise", call, << >>))
    /\ pc' = "render"
    /\ UNCHANGED << prompt, style, panels, images, comic, files, clock, args, result >>

\* The pipe raises: nothing catches it, generate_comic is left.
RaiseImage ==
    /\ pc = "image_wait"
    /\ \E call \in inflight :
        /\ inflight' = inflight \ { call }
        /\ log' = Append(log, Event("raise", call, << >>))
    /\ pc' = "failed"
    /\ UNCHANGED << prompt, style, panels, images, comic, files, clock, args, result >>

\* comic = assembler.assemble_comic(story_data, images)
Assemble ==
    /\ pc = "assemble"
    /\ comic' = assemble_comic(panels, images)
    /\ log' = Append(log, [ ev |-> "assemble", svc |-> "local", n |-> clock,
                            val |-> << panels, images >> ])
    /\ pc' = "save"
    /\ UNCHANGED << prompt, style, panels, inflight, images, files, clock, args, result >>

\* f"comic_output/comic_{timestamp}.png"
filename(timestamp) ==
    << "c", "o", "m", "i", "c", "_", "o", "u", "t", "p", "u", "t", "/", "c", "o", "m", "i",
       "c", "_" >> \o str(timestamp) \o << ".", "p", "n", "g" >>

\* A bug: the time is read before the composition begins.
Now_BeforeComposition == Epoch

\* int(time.time())
Now == Epoch + clock

\* timestamp = int(time.time()); comic.save(filename)
Save ==
    /\ pc = "save"
    /\ files' = files \cup { filename(Now) }
    /\ log' = Append(log, [ ev |-> "save", svc |-> "local", n |-> clock,
                            val |-> filename(Now) ])
    /\ pc' = "show"
    /\ UNCHANGED << prompt, style, panels, inflight, images, comic, clock, args, result >>

\* comic.save(filename) raises (the directory is gone, the disk is full): no file
\* is left, nothing catches the exception, generate_comic is left.
SaveRaises ==
    /\ pc = "save"
    /\ pc' = "failed"
    /\ UNCHANGED << prompt, style, panels, inflight, log, images, comic, files, clock,
                    args, result >>

\* The display raises (plt.figure, plt.imshow or plt.show, no backend): the file is
\* written, but generate_comic is left by the exception and returns nothing.
ShowRaises ==
    /\ pc = "show"
    /\ pc' = "failed"
    /\ UNCHANGED << prompt, style, panels, inflight, log, images, comic, files, clock,
                    args, result >>

\* plt.show(); return comic, story_data
Return ==
    /\ pc = "show"
    /\ result' = << comic, panels >>
    /\ pc' = "done"
    /\ UNCHANGED << prompt, style, panels, inflight, log, images, comic, files, clock,
                    args >>

\* Time passes.  Only Save reads the clock, so the seconds that pass before the
\* images are complete change nothing and are left out: Epoch is the time at which
\* the last image came back.
Tick ==
    /\ pc \in { "assemble", "save", "show" }
    /\ clock < MaxClock
    /\ clock' = clock + 1
    /\ UNCHANGED << pc, prompt, style, panels, inflight, log, images, comic, files,
                    args, result >>

Next ==
    \/ NewStoryGenerator
    \/ NewStoryGeneratorRaises
    \/ CallText
    \/ ReturnText
    \/ RaiseText
    \/ NewImageGenerator
    \/ NewImageGeneratorRaises
    \/ CallImage
    \/ ReturnImage
    \/ RaiseImage
    \/ Assemble
    \/ Save
    \/ SaveRaises
    \/ Return
    \/ ShowRaises
    \/ Tick

Spec == Init /\ [][Next]_vars

-----------------------------------------------------------------------------
(* Direct calls of one method, on arguments drawn from bounded sets. *)

\* The variables of the run, while a single method is called.
NoRun ==
    /\ prompt = << >>
    /\ style = << >>
    /\ panels = << >>
    /\ inflight = { }
    /\ log = << >>
    /\ images = << >>
    /\ comic = NoComic
    /\ files = { }
    /\ clock = 0

runVars == << prompt, style, panels, inflight, log, images, comic, files, clock >>

\* One iteration of generate_story's loop on two responses of the text model, for
\* the same i and prompt.
InitParse ==
    /\ pc = "direct"
    /\ NoRun
    /\ args \in [ i : 0..(Len(panel_types) - 1), prompt : Prompts,
                  a : TextOutputs, b : TextOutputs ]
    /\ result = << >>

ParseDirect ==
    /\ pc = "direct"
    /\ result' = << MakePanel(args.i, panel_types[args.i + 1], args.prompt, args.a),
                    MakePanel(args.i, panel_types[args.i + 1], args.prompt, args.b) >>
    /\ pc' = "returned"
    /\ UNCHANGED << args, runVars >>

SpecParse == InitParse /\ [][ParseDirect]_vars

\* generate_image on any style and image prompt.
StyleInputs ==
    { << "c", "o", "m", "i", "c" >>, << "m", "a", "n", "g", "a" >>, << "s", "u", "p", "e",
                                                                       "r", "h", "e", "r",
                                                                       "o" >>, << "c", "a",
                                                                                  "r", "t",
                                                                                  "o", "o",
                                                                                  "n" >>,
      << >>, << "C", "o", "m", "i", "c" >>, << "M", "A", "N", "G", "A" >>, << "n", "o",
                                                                              "i", "r" >>,
      << "m", "a", "n", "g", "a", " " >>, << "d", "e", "t", "a", "i", "l", "e", "d" >> }

ImagePromptInputs ==
    { << >>, << "r", "o", "b", "o", "t", " ", "h", "o", "l", "d", "i", "n", "g", " ", "a",
                " ", "b", "r", "u", "s", "h" >>, << "m", "a", "n", "g", "a" >>,
      << ",", " " >>, Fill(30) }
    \cup { FallbackImagePrompt(panel_types[k], << "C", "a", "t" >>) : k \in 1..2 }

InitImage ==
    /\ pc = "direct"
    /\ NoRun
    /\ args \in [ prompt : ImagePromptInputs, style : StyleInputs ]
    /\ result = << >>

ImageDirect ==
    /\ pc = "direct"
    /\ LET request == PipeRequest(args.prompt, args.style) IN
       result' = [ request |-> request, image |-> PipeImage(1, request) ]
    /\ pc' = "returned"
    /\ UNCHANGED << args, runVars >>

SpecImage == InitImage /\ [][ImageDirect]_vars

\* assemble_comic on any two sequences of panels and images.
DescriptionLens == { 0, 1, 56, 57, 58, 59, 60, 61, 62, MaxTextLen }

DialogueLens == { 0, 36, 37, 38, 39, 40, 41, 42, MaxTextLen }

\* n panels as generate_story numbers them, with descriptions of d and dialogues
\* of g characters.
SomeStory(n, d, g) ==
    [ k \in 1..n |->
        [ panel |-> k, type |-> panel_types[((k - 1) % Len(panel_types)) + 1],
          text |-> Fill(d), dialogue |-> Fill(g),
          image_prompt |-> << "a", " ", "p", "a", "n", "e", "l" >> ] ]

\* n images as the pipe returns them.
SomeImages(n) ==
    [ k \in 1..n |->
        PipeImage(k, PipeRequest(<< "a", " ", "p", "a", "n", "e", "l" >>,
                                 << "c", "o", "m", "i", "c" >>)) ]

InitAssemble ==
    /\ pc = "direct"
    /\ NoRun
    /\ \E n \in 0..MaxPanels, m \in 0..MaxPanels,
          d \in DescriptionLens, g \in DialogueLens :
        args = [ story_data |-> SomeStory(n, d, g), images |-> SomeImages(m) ]
    /\ result = << >>

AssembleDirect ==
    /\ pc = "direct"
    /\ result' = assemble_comic(args.story_data, args.images)
    /\ pc' = "returned"
    /\ UNCHANGED << args, runVars >>

SpecAssemble == InitAssemble /\ [][AssembleDirect]_vars

-----------------------------------------------------------------------------
(* What the properties below are stated with. *)

\* The number of pipes in s.
Pipes(s) == Cardinality({ j \in 1..Len(s) : s[j] = "|" })

BeginsWith(s, p) == Len(p) <= Len(s) /\ SubSeq(s, 1, Len(p)) = p

EndsWith(s, p) == Len(p) <= Len(s) /\ SubSeq(s, Len(s) - Len(p) + 1, Len(s)) = p

\* The positions of the log that hold an event of this kind for this service.
Events(ev, svc) == { j \in 1..Len(log) : log[j].ev = ev /\ log[j].svc = svc }

\* generate_story has returned its list to generate_comic.
StoryReturned ==
    \/ pc \in { "load", "render", "image_wait", "assemble", "save", "show", "done" }
    \/ /\ pc = "failed"
       /\ log # << >>
       /\ ~(log[Len(log)].ev = "raise" /\ log[Len(log)].svc = "text")

TypeNames ==
    << << "I", "n", "t", "r", "o", "d", "u", "c", "t", "i", "o", "n" >>,
       << "S", "t", "o", "r", "y", "l", "i", "n", "e" >>,
       << "C", "l", "i", "m", "a", "x" >>,
       << "R", "e", "s", "o", "l", "u", "t", "i", "o", "n" >> >>

LowerTypeNames ==
    << << "i", "n", "t", "r", "o", "d", "u", "c", "t", "i", "o", "n" >>,
       << "s", "t", "o", "r", "y", "l", "i", "n", "e" >>,
       << "c", "l", "i", "m", "a", "x" >>,
       << "r", "e", "s", "o", "l", "u", "t", "i", "o", "n" >> >>

Numerals ==
    << << "1" >>, << "2" >>, << "3" >>, << "4" >>, << "5" >>, << "6" >>, << "7" >> >>

\* The value of a sequence of decimal digits.
RECURSIVE DecimalValue(_)
DecimalValue(d) ==
    IF d = << >> THEN 0
    ELSE DecimalValue(SubSeq(d, 1, Len(d) - 1)) * 10
         + (CHOOSE v \in 0..9 : Digits[v + 1] = d[Len(d)])

IsDecimal(d) ==
    /\ d # << >>
    /\ \A j \in 1..Len(d) : \E v \in 0..9 : Digits[v + 1] = d[j]
    /\ Len(d) > 1 => d[1] # "0"

-----------------------------------------------------------------------------
\* C1: whatever the text model returns for the four calls, generate_story returns
\* exactly 4 panels, of types Introduction, Storyline, Climax, Resolution in this
\* order and numbered 1, 2, 3, 4, and the list stays so until generate_comic
\* returns it.
C1_FourPanelsInOrder ==
    /\ Len(panels) <= 4
    /\ StoryReturned =>
        /\ Len(panels) = 4
        /\ \A k \in 1..4 : panels[k].type = TypeNames[k] /\ panels[k].panel = k
    /\ pc = "done" => result[2] = panels

\* The story was returned after a response with pipes, one without and one that
\* is no str.
C1_Witness ==
    /\ pc = "load"
    /\ Len(panels) = 4
    /\ \E a, b, c \in Events("return", "text") :
        /\ log[a].val = NotStr
        /\ log[b].val.kind = "str" /\ Pipes(log[b].val.chars) = 0
        /\ log[c].val.kind = "str" /\ Pipes(log[c].val.chars) >= 2

\* Both responses of a direct call are strs with fewer than 2 pipes.
FewPipes(content) == content.kind = "str" /\ Pipes(content.chars) < 2

\* The ASCII characters Python counts as whitespace: space, \t, \n, \x0b, \f, \r
\* and \x1c to \x1f.
Blank == { " ", "\t", "\n", "", "\f", "\r", "", "", "", "" }

\* t is s without its leading and trailing whitespace.
IsStripped(t, s) ==
    \E a \in 1..(Len(s) + 1), b \in 0..Len(s) :
        /\ t = SubSeq(s, a, b)
        /\ \A j \in 1..Len(s) : (j < a \/ j > b) => s[j] \in Blank
        /\ t # << >> => t[1] \notin Blank /\ t[Len(t)] \notin Blank

\* C2 as stated: two responses with fewer than 2 pipes give, for the same index,
\* type and prompt, the same panel.
C2_SameFallbackPanel ==
    (pc = "returned" /\ FewPipes(args.a) /\ FewPipes(args.b))
        => result[1] = result[2]

\* C2, amended: of a response with fewer than 2 pipes the panel's dialogue is
\* "Panel <i+1> dialogue" and its image_prompt is "Comic panel showing <type in
\* lower case> about <prompt>, detailed illustration", both a function of index,
\* type and prompt alone; its description is the first 100 characters of the
\* response without their leading and trailing whitespace.
C2_FallbackFields ==
    (pc = "returned" /\ FewPipes(args.a)) =>
        /\ result[1].dialogue
             = << "P", "a", "n", "e", "l", " " >> \o Numerals[args.i + 1] \o << " ", "d",
                                                                                "i", "a",
                                                                                "l", "o",
                                                                                "g", "u",
                                                                                "e" >>
        /\ result[1].image_prompt
             = << "C", "o", "m", "i", "c", " ", "p", "a", "n", "e", "l", " ", "s", "h",
                  "o", "w", "i", "n", "g", " " >> \o LowerTypeNames[args.i + 1]
               \o << " ", "a", "b", "o", "u", "t", " " >> \o args.prompt \o << ",", " ",
                                                                               "d", "e",
                                                                               "t", "a",
                                                                               "i", "l",
                                                                               "e", "d",
                                                                               " ", "i",
                                                                               "l", "l",
                                                                               "u", "s",
                                                                               "t", "r",
                                                                               "a", "t",
                                                                               "i", "o",
                                                                               "n" >>
        /\ IsStripped(result[1].text,
                      SubSeq(args.a.chars, 1,
                             IF Len(args.a.chars) < 100 THEN Len(args.a.chars) ELSE 100))
        /\ FewPipes(args.b) =>
            /\ result[1].dialogue = result[2].dialogue
            /\ result[1].image_prompt = result[2].image_prompt

\* Two responses with fewer than 2 pipes, one of them longer than 100 characters,
\* were parsed into panels with different descriptions.
C2_Witness ==
    /\ pc = "returned"
    /\ FewPipes(args.a) /\ FewPipes(args.b)
    /\ Len(args.a.chars) > 100
    /\ Pipes(args.b.chars) = 1
    /\ Len(result[1].text) = 100
    /\ result[1].text # result[2].text

\* C3 as stated: no exception of a panel, raised by the call of the text model or
\* by the parsing, aborts generate_story.
C3_NoPanelAborts ==
    \A j \in Events("raise", "text") : pc # "failed"

\* C3, amended: an exception raised while the response is parsed (inside the try)
\* is caught and the panel gets the fallback values "Panel <i+1>: <type>",
\* "Panel <i+1> dialogue" and the fallback image prompt, and the loop goes on; an
\* exception raised by the call of the text model is not caught: generate_story
\* returns nothing, no panel is added for it, no further call is made, and no
\* image, comic or file is produced.
C3_ParseErrorsCaughtCallErrorsNot ==
    /\ \A j \in Events("return", "text") :
        log[j].val = NotStr =>
            LET k == log[j].n + 1 IN
            /\ Len(panels) >= k
            /\ panels[k].text
                 = << "P", "a", "n", "e", "l", " " >> \o Numerals[k] \o << ":", " " >> \o TypeNames[k]
            /\ panels[k].dialogue
                 = << "P", "a", "n", "e", "l", " " >> \o Numerals[k] \o << " ", "d", "i",
                                                                           "a", "l", "o",
                                                                           "g", "u", "e" >>
            /\ panels[k].image_prompt
                 = << "C", "o", "m", "i", "c", " ", "p", "a", "n", "e", "l", " ", "s", "h",
                      "o", "w", "i", "n", "g", " " >> \o LowerTypeNames[k]
                   \o << " ", "a", "b", "o", "u", "t", " " >> \o prompt \o << ",", " ",
                                                                              "d", "e",
                                                                              "t", "a",
                                                                              "i", "l",
                                                                              "e", "d",
                                                                              " ", "i",
                                                                              "l", "l",
                                                                              "u", "s",
                                                                              "t", "r",
                                                                              "a", "t",
                                                                              "i", "o",
                                                                              "n" >>
            /\ (pc = "failed" /\ j = Len(log)) => Len(panels) = 4
    /\ \A j \in Events("raise", "text") :
        /\ j = Len(log)
        /\ pc = "failed"
        /\ Len(panels) = log[j].n
        /\ ~StoryReturned
        /\ images = << >> /\ comic = NoComic /\ files = { } /\ result = << >>
    /\ (pc = "failed" /\ Len(panels) < 4) =>
        \/ log = << >>
        \/ log[Len(log)].ev = "raise" /\ log[Len(log)].svc = "text"

\* A response that was no str was replaced by the fallback values, and the story
\* was completed after it.
C3_Witness ==
    /\ pc = "load"
    /\ \E j \in Events("return", "text") : log[j].val = NotStr /\ log[j].n = 1
    /\ Len(panels) = 4

\* C4 as stated: assemble_comic returns a comic only when there are 4 panels and
\* 4 images.
C4_FailsUnlessFourAndFour ==
    pc = "returned" => Len(args.story_data) = 4 /\ Len(args.images) = 4

\* C4, amended: assemble_comic does not check the lengths and does not fail on a
\* mismatched or short pair of sequences: it returns the 1084 x 1260 canvas with
\* min(len(story_data), len(images)) panels, the i-th made of story_data[i] and
\* images[i].
C4_DrawsShorterOfTheTwo ==
    pc = "returned" =>
        /\ result.size = << 1084, 1260 >>
        /\ Len(args.story_data) <= Len(args.images)
             => Len(result.cells) = Len(args.story_data)
        /\ Len(args.images) <= Len(args.story_data)
             => Len(result.cells) = Len(args.images)
        /\ \A j \in 1..Len(result.cells) :
            /\ result.cells[j].image = args.images[j]
            /\ result.cells[j].label.text
                 = << "P", "a", "n", "e", "l", " " >> \o Numerals[j] \o << ":", " " >>
                   \o args.story_data[j].type

\* A comic was returned for 4 panels and 2 images.
C4_Witness ==
    /\ pc = "returned"
    /\ Len(args.story_data) = 4
    /\ Len(args.images) = 2
    /\ Len(result.cells) = 2

\* C5: when the image model raises for panel k, generate_comic is left with the
\* exception: no call is made after it (no other image, no retry of this one, no
\* assemble_comic, no save), and there is no comic and no file.
C5_ImageFailureAborts ==
    \A j \in Events("raise", "image") :
        /\ j = Len(log)
        /\ pc = "failed"
        /\ inflight = { }
        /\ Len(images) = log[j].n
        /\ Cardinality({ h \in Events("call", "image") : log[h].n = log[j].n }) = 1
        /\ Cardinality(Events("call", "image")) = log[j].n + 1
        /\ Events("assemble", "local") = { }
        /\ Events("save", "local") = { }
        /\ comic = NoComic
        /\ files = { }
        /\ result = << >>

\* The image model raised for the third panel, after two images.
C5_Witness ==
    /\ pc = "failed"
    /\ \E j \in Events("raise", "image") : log[j].n = 2
    /\ Len(images) = 2

\* The prefix the documentation gives for a style.
ExpectedPrefix(s) ==
    CASE s = << "c", "o", "m", "i", "c" >>
           -> << "c", "o", "m", "i", "c", " ", "b", "o", "o", "k", " ", "s", "t", "y", "l",
                 "e", ",", " ", "d", "e", "t", "a", "i", "l", "e", "d", " ", "i", "l", "l",
                 "u", "s", "t", "r", "a", "t", "i", "o", "n" >>
      [] s = << "m", "a", "n", "g", "a" >>
           -> << "m", "a", "n", "g", "a", " ", "s", "t", "y", "l", "e", ",", " ", "b", "l",
                 "a", "c", "k", " ", "a", "n", "d", " ", "w", "h", "i", "t", "e" >>
      [] s = << "s", "u", "p", "e", "r", "h", "e", "r", "o" >>
           -> << "s", "u", "p", "e", "r", "h", "e", "r", "o", " ", "c", "o", "m", "i", "c",
                 " ", "s", "t", "y", "l", "e", ",", " ", "d", "y", "n", "a", "m", "i", "c",
                 " ", "p", "o", "s", "e" >>
      [] s = << "c", "a", "r", "t", "o", "o", "n" >>
           -> << "c", "a", "r", "t", "o", "o", "n", " ", "s", "t", "y", "l", "e", ",", " ",
                 "c", "o", "l", "o", "r", "f", "u", "l", " ", "a", "n", "d", " ", "v", "i",
                 "b", "r", "a", "n", "t" >>
      [] OTHER
           -> << "c", "o", "m", "i", "c", " ", "b", "o", "o", "k", " ", "s", "t", "y", "l",
                 "e", ",", " ", "d", "e", "t", "a", "i", "l", "e", "d", " ", "i", "l", "l",
                 "u", "s", "t", "r", "a", "t", "i", "o", "n" >>

\* C6: the prompt handed to the image model is prefix + ", " + image_prompt, the
\* prefix being the one of the style for comic, manga, superhero and cartoon and
\* the one of comic for every other style string, for which nothing is raised;
\* with style manga the prompt begins with "manga style, black and white, ".
C6_StylePrefix ==
    pc = "returned" =>
        /\ result.request.prompt
             = ExpectedPrefix(args.style) \o << ",", " " >> \o args.prompt
        /\ args.style = << "m", "a", "n", "g", "a" >>
             => BeginsWith(result.request.prompt,
                           << "m", "a", "n", "g", "a", " ", "s", "t", "y", "l", "e", ",",
                              " ", "b", "l", "a", "c", "k", " ", "a", "n", "d", " ", "w",
                              "h", "i", "t", "e", ",", " " >>)
        /\ result.image.id = 1

\* generate_image returned for a style that differs from "manga" only by case.
C6_Witness ==
    /\ pc = "returned"
    /\ args.style = << "M", "A", "N", "G", "A" >>
    /\ args.prompt # << >>
    /\ BeginsWith(result.request.prompt, << "c", "o", "m", "i", "c", " ", "b", "o", "o",
                                            "k", " ", "s", "t", "y", "l", "e", ",", " " >>)

\* The text between the quotes of a drawn dialogue.
Unquoted(s) == SubSeq(s, 2, Len(s) - 1)

\* C7: assemble_comic draws a description of more than 60 characters as its first
\* 57 characters and "..." (60 characters), a dialogue of more than 40 characters
\* as its first 37 characters and "..." (40 characters) between quotes, shorter
\* ones unchanged, and leaves the panels it was given as they were.
C7_Truncation ==
    [][ (pc = "direct" /\ pc' = "returned") =>
          /\ args' = args
          /\ \A j \in 1..Len(result'.cells) :
              LET p == args.story_data[j]
                  t == result'.cells[j].text.text
                  q == result'.cells[j].dialogue.text
                  d == Unquoted(q)
              IN  /\ Len(p.text) > 60 =>
                        /\ Len(t) = 60
                        /\ SubSeq(t, 1, 57) = SubSeq(p.text, 1, 57)
                        /\ SubSeq(t, 58, 60) = << ".", ".", "." >>
                  /\ Len(p.text) <= 60 => t = p.text
                  /\ Len(t) <= 60
                  /\ Len(q) >= 2 /\ q[1] = "\"" /\ q[Len(q)] = "\""
                  /\ Len(p.dialogue) > 40 =>
                        /\ Len(d) = 40
                        /\ SubSeq(d, 1, 37) = SubSeq(p.dialogue, 1, 37)
                        /\ SubSeq(d, 38, 40) = << ".", ".", "." >>
                  /\ Len(p.dialogue) <= 40 => d = p.dialogue
                  /\ Len(d) <= 40
      ]_vars

\* A comic was drawn from a description of 61 and a dialogue of 41 characters.
C7_Witness ==
    /\ pc = "returned"
    /\ Len(result.cells) = 4
    /\ Len(args.story_data[1].text) = 61
    /\ Len(args.story_data[1].dialogue) = 41
    /\ Len(result.cells[1].text.text) = 60
    /\ Len(result.cells[1].dialogue.text) = 42

\* The name of the one file written, split around its digits.
FileDigits(f) == SubSeq(f, 20, Len(f) - 4)

\* C8: a run of generate_comic that completes has written exactly one file,
\* comic_output/comic_<t>.png with t the time in whole seconds read after the
\* composition; a file is written only once the four images are there and the
\* comic is composed, and never more than one (a run that fails writes none,
\* unless it fails in the display that follows the save).
C8_OneTimestampedFile ==
    /\ Cardinality(files) <= 1
    /\ Cardinality(Events("save", "local")) <= 1
    /\ files # { } =>
        /\ pc \in { "show", "done", "failed" }
        /\ log[Len(log)].ev = "save"
        /\ Len(images) = 4
        /\ comic # NoComic
        /\ Len(comic.cells) = 4
        /\ \E a \in Events("assemble", "local"), s \in Events("save", "local") :
            /\ a < s
            /\ log[a].n <= log[s].n
            /\ log[s].n <= clock
            /\ \A f \in files :
                /\ BeginsWith(f, << "c", "o", "m", "i", "c", "_", "o", "u", "t", "p", "u",
                                    "t", "/", "c", "o", "m", "i", "c", "_" >>)
                /\ EndsWith(f, << ".", "p", "n", "g" >>)
                /\ IsDecimal(FileDigits(f))
                /\ DecimalValue(FileDigits(f)) = Epoch + log[s].n
    /\ pc \in { "show", "done" } => Cardinality(files) = 1
    /\ files = { } => Events("save", "local") = { }
    /\ pc = "done" => result[1] = comic

\* The run completed and the clock advanced between composition and save.
C8_Witness ==
    /\ pc = "done"
    /\ Cardinality(files) = 1
    /\ \E a \in Events("assemble", "local"), s \in Events("save", "local") :
        log[a].n < log[s].n

\* The calls of the two models, in the order they were made.
ModelCalls == { j \in 1..Len(log) : log[j].ev = "call" }

\* The number of model calls made up to position j of the log.
CallNumber(j) == Cardinality({ h \in ModelCalls : h <= j })

\* C9: the external calls of a run are made one after the other in one order:
\* the four calls of the text model, for Introduction, Storyline, Climax and
\* Resolution, each answered before the next is made; then one call of the image
\* model per panel, in story order, with that panel's image_prompt and the run's
\* style, each answered before the next; then assemble_comic, once, after the
\* fourth image, with images[i] the image returned for story[i].  No two model
\* calls are ever in flight together.
C9_SequentialOrder ==
    /\ Cardinality(inflight) <= 1
    /\ Cardinality(ModelCalls) <= 8
    /\ \A j \in ModelCalls :
        \* a call is answered by the next event, or is the one in flight
        /\ IF j = Len(log)
           THEN inflight = { [ svc |-> log[j].svc, n |-> log[j].n, request |-> log[j].val ] }
           ELSE /\ log[j + 1].ev \in { "return", "raise" }
                /\ log[j + 1].svc = log[j].svc
                /\ log[j + 1].n = log[j].n
        \* the k-th call is the one the order gives
        /\ LET k == CallNumber(j) IN
           IF k <= 4
           THEN /\ log[j].svc = "text"
                /\ log[j].n = k - 1
                /\ BeginsWith(SubSeq(log[j].val, 14, Len(log[j].val)),
                              << "C", "r", "e", "a", "t", "e", " ", "a", " " >> \o LowerTypeNames[k]
                              \o << " ", "p", "a", "n", "e", "l", " ", "f", "o", "r", " ",
                                    "a", " ", "c", "o", "m", "i", "c", " ", "a", "b", "o",
                                    "u", "t", ":", " " >> \o prompt)
           ELSE /\ log[j].svc = "image"
                /\ log[j].n = k - 5
                /\ Len(panels) = 4
                /\ log[j].val.prompt
                     = ExpectedPrefix(style) \o << ",", " " >> \o panels[k - 4].image_prompt
    /\ (log = << >> \/ log[Len(log)].ev # "call") => inflight = { }
    /\ \A j \in Events("return", "image") :
        Len(images) > log[j].n /\ images[log[j].n + 1] = log[j].val
    /\ Len(images) = Cardinality(Events("return", "image"))
    /\ Cardinality(Events("assemble", "local")) <= 1
    /\ \A a \in Events("assemble", "local") :
        /\ Cardinality(Events("return", "text")) = 4
        /\ Cardinality(Events("return", "image")) = 4
        /\ \A j \in ModelCalls : j < a
        /\ log[a].val = << panels, images >>
        /\ \A j \in Events("return", "image") :
            /\ log[a].val[2][log[j].n + 1] = log[j].val
            /\ log[j - 1].val.prompt
                 = ExpectedPrefix(style) \o << ",", " " >>
                   \o log[a].val[1][log[j].n + 1].image_prompt
    /\ comic # NoComic => Events("assemble", "local") # { }

\* assemble_comic was called after the eight model calls.
C9_Witness ==
    /\ pc = "save"
    /\ Cardinality(ModelCalls) = 8
    /\ Events("assemble", "local") # { }

\* Two rectangles << x0, y0, x1, y1 >> share no inner point.
Disjoint(r, s) == r[3] <= s[1] \/ s[3] <= r[1] \/ r[4] <= s[2] \/ s[4] <= r[2]

\* The cell of a drawn panel: its image and the band of text beneath it.
CellOf(c) == << c.paste[1], c.paste[2], c.background[3], c.background[4] >>

\* C10: panel i (0-based, 0..3) is drawn in row i div 2 and column i mod 2, its
\* top left corner at (20 + col*532, 20 + row*620), on a canvas of 1084 x 1260;
\* its cell of 512 x 600, the image of 512 x 512 with the band of text from y+512
\* to y+600 beneath it, lies within the canvas, and no two of the four cells
\* overlap.
C10_GridLayout ==
    pc = "returned" =>
        /\ result.size = << 1084, 1260 >>
        /\ result.size = << 2 * 512 + 3 * 20, 2 * 600 + 3 * 20 >>
        /\ \A j \in 1..Len(result.cells) :
            j <= 4 =>
                LET i == j - 1
                    c == result.cells[j]
                    x == 20 + (i % 2) * 532
                    y == 20 + (i \div 2) * 620
                IN  /\ c.paste = << x, y, x + 512, y + 512 >>
                    /\ c.background = << x, y + 512, x + 512, y + 600 >>
                    /\ CellOf(c) = << x, y, x + 512, y + 600 >>
                    /\ 0 <= x /\ 0 <= y
                    /\ x + 512 <= result.size[1] /\ y + 600 <= result.size[2]
                    /\ c.paste[1] = << 20, 552, 20, 552 >>[j]
                    /\ c.paste[2] = << 20, 20, 640, 640 >>[j]
                    /\ \A h \in 1..Len(result.cells) :
                        (h <= 4 /\ h # j) => Disjoint(CellOf(c), CellOf(result.cells[h]))

\* A comic of four panels was drawn.
C10_Witness ==
    /\ pc = "returned"
    /\ Len(result.cells) = 4
    /\ result.cells[4].paste = << 552, 640, 1064, 1152 >>

=============================================================================
